---- MODULE Spec2Model ----
(***************************************************************************)
(* Model of src/FileCompressor.jsx: the RLE + Huffman codec, the bit       *)
(* packer, the .huf container and the processFile / downloadCompressed     *)
(* handlers of the FileCompressor component.                               *)
(*                                                                         *)
(* Encodings.  A byte buffer (Uint8Array) is a sequence over 0..255.  A    *)
(* bit string ('0'/'1' characters) is a sequence over {0,1}.  JavaScript   *)
(* null in a node's char field is NullChar, undefined is UndefChar; a null *)
(* child is NullNode, the undefined that dequeue() gives on an empty       *)
(* queue is Undefined.  A frequency table / code table (a JS object keyed  *)
(* by byte value) is a function whose DOMAIN is the set of keys present.   *)
(* Text (JSON) is a sequence of ASCII codes.                               *)
(***************************************************************************)
EXTENDS Integers, Sequences, FiniteSets, TLC

VARIABLES
  \* ---- codec runs: huffmanCompress / huffmanDecompress applied to a buffer
  cpc,            \* "input" | "compressed" | "decompressed" | "rle" | "unrle"
  originalData,   \* the source buffer B
  cres,           \* what huffmanCompress returned (or that it threw)
  progressLog,    \* percentages handed to onProgress, in call order
  dout,           \* what huffmanDecompress returned
  rleData,        \* preprocessData(B)
  rleBack,        \* the reverse-RLE scan applied to rleData
  freqOut,        \* buildFrequencyTable applied to originalData
  \* ---- tree runs: buildHuffmanTree / buildCodes / decoding against a tree
  tpc,            \* "table" | "built" | "coded" | "threw" | "decoded"
  table,          \* the frequency table handed to buildHuffmanTree
  treeRoot,       \* the root buildHuffmanTree returned
  codeTable,      \* the table buildCodes returned
  payload,        \* <<compressedData, padding>> handed to huffmanDecompress
  decoded,        \* what huffmanDecompress returned for it
  walkedOff,      \* the decode loop met a bit with no corresponding child
  \* ---- bit packer runs
  bpc,            \* "bits" | "packed" | "unpacked"
  bitsIn,         \* the bit string handed to packBits
  packedOut,      \* what packBits returned
  bitsOut,        \* what unpackBits returned for it
  \* ---- progress runs: the onProgress calls of one huffmanCompress call
  gpc,            \* "shape" | "reported"
  shapeUnique,    \* Object.keys(freqTable).length of the call
  shapeLength,    \* preprocessedData.length of the call
  reported,       \* percentages handed to onProgress, in call order
  \* ---- queue runs: one PriorityQueue object
  pqItems,        \* this.items
  pqOut,          \* what the last dequeue() returned
  \* ---- the FileCompressor component (useState values, null is NullNode)
  file,               \* the selected File: [name, type, data]
  mode,               \* "compress" | "decompress"
  isProcessing,
  result,             \* a compression result, a decompression result or [error]
  decompressedFile,   \* the Blob's bytes
  processingProgress,
  processingStatus,
  \* ---- what the component's handlers have in flight or have produced
  runs,               \* processFile calls waiting for file.arrayBuffer():
                      \* [id, file, mode], file and mode as the call captured them
  timers,             \* ids of the setInterval timers not yet cleared
  started,            \* number of processFile calls so far
  downloads           \* the files handed to the browser for download, in order

codecVars == <<cpc, originalData, cres, progressLog, dout, rleData, rleBack, freqOut>>
treeVars == <<tpc, table, treeRoot, codeTable, payload, decoded, walkedOff>>
bitsVars == <<bpc, bitsIn, packedOut, bitsOut>>
progressVars == <<gpc, shapeUnique, shapeLength, reported>>
queueVars == <<pqItems, pqOut>>

appVars ==
  <<file, mode, isProcessing, result, decompressedFile, processingProgress,
    processingStatus, runs, timers,
    started, downloads>>

vars == <<codecVars, treeVars, bitsVars, progressVars, queueVars, appVars>>

\* what an action of one group leaves alone
notCodec == <<treeVars, bitsVars, progressVars, queueVars, appVars>>
notTree == <<codecVars, bitsVars, progressVars, queueVars, appVars>>
notBits == <<codecVars, treeVars, progressVars, queueVars, appVars>>
notProgress == <<codecVars, treeVars, bitsVars, queueVars, appVars>>
notQueue == <<codecVars, treeVars, bitsVars, progressVars, appVars>>
notApp == <<codecVars, treeVars, bitsVars, progressVars, queueVars>>

----------------------------------------------------------------------------
(* Bounds of the model                                                     *)

MaxLen == 5          \* longest buffer enumerated exhaustively
MaxFreq == 3         \* largest count in an enumerated frequency table
MaxPayload == 2      \* longest payload decoded against a tree
MaxBits == 100       \* longest bit string handed to packBits
SeedLen == 3         \* longest pattern a bit string is built from
MaxAllBits == 8      \* bit strings up to this length are all enumerated
MaxRuns == 2         \* processFile calls in one behaviour
MaxDownloads == 2    \* downloads in one behaviour
MaxChunks == 3       \* 10000-byte chunks of the longest encode loop
MaxQueue == 3        \* items in the queue of a queue run
MaxWeight == 2       \* weight of a leaf enqueued in a queue run

\* Byte values the enumerated buffers are built from: an ordinary value, a
\* boosted marker byte (0x20), two letters and the RLE sentinel.
Alphabet == {7, 32, 65, 255}

----------------------------------------------------------------------------
(* JavaScript values                                                       *)

NullChar  == 0 - 1                       \* node.char === null
UndefChar == 0 - 2                       \* node.char === undefined
NullNode  == [isNull |-> TRUE]           \* a null child / null tree
Undefined == [isUndefined |-> TRUE]      \* Array.prototype.shift() on []

\* new HuffmanNode(char, freq, left, right)
HuffmanNode(char, freq, left, right) ==
  [char |-> char, freq |-> freq, left |-> left, right |-> right]

\* JS truthiness of a node-valued expression (if (node.left) ...)
TruthyNode(n) == n # NullNode /\ n # Undefined

Range(s) == {s[i] : i \in DOMAIN s}
Max(a, b) == IF a >= b THEN a ELSE b
Min(a, b) == IF a <= b THEN a ELSE b

\* '0'.repeat(n) and friends
Repeat(x, n) == [j \in 1..n |-> x]

\* round(a / b) for b > 0, halves away from zero (Number.prototype.toFixed,
\* and Math.round on the non-negative values it is applied to)
RoundDiv(a, b) ==
  IF a >= 0 THEN (2 * a + b) \div (2 * b) ELSE 0 - ((2 * (0 - a) + b) \div (2 * b))

\* Math.ceil(a / b) for a >= 0, b > 0
CeilDiv(a, b) == (a + b - 1) \div b

----------------------------------------------------------------------------
(* 4.1 PriorityQueue                                                       *)

\* (a.char || 0)
CharOrZero(n) == IF n.char = NullChar \/ n.char = 0 THEN 0 ELSE n.char

\* a comparator of weights alone
Compare_FreqOnly(a, b) == a.freq - b.freq

\* the comparator handed to items.sort
Compare(a, b) ==
  IF a.freq # b.freq THEN a.freq - b.freq
  ELSE IF a.char = NullChar /\ b.char # NullChar THEN 1
  ELSE IF a.char # NullChar /\ b.char = NullChar THEN 0 - 1
  ELSE CharOrZero(a) - CharOrZero(b)

\* Array.prototype.sort(cmp): a stable sort.  One insertion step puts x
\* behind every element that does not compare greater than it.
RECURSIVE InsertSorted(_, _)
InsertSorted(sorted, x) ==
  IF sorted = <<>> THEN <<x>>
  ELSE IF Compare(sorted[Len(sorted)], x) <= 0 THEN Append(sorted, x)
  ELSE Append(InsertSorted(SubSeq(sorted, 1, Len(sorted) - 1), x), sorted[Len(sorted)])

RECURSIVE SortItems(_)
SortItems(items) ==
  IF items = <<>> THEN <<>>
  ELSE InsertSorted(SortItems(SubSeq(items, 1, Len(items) - 1)), items[Len(items)])

\* enqueue(item): push, then sort the whole array
Enqueue(items, item) == SortItems(Append(items, item))

\* dequeue(): items.shift(); undefined on an empty array
DequeueItem(items) == IF items = <<>> THEN Undefined ELSE Head(items)
DequeueRest(items) == IF items = <<>> THEN <<>> ELSE Tail(items)

----------------------------------------------------------------------------
(* 4.2 RLE transform                                                       *)

\* (a variant whose cap is 256 comes first, for comparison)
\* the inner while of preprocessData: count grows from the given value while
\* the next byte exists, equals the current byte and count is below 255; the
\* loop stops at the first count for which one of the three fails
RunLength_Cap256(data, i, count) ==
  LET goesOn(c) == i + c < Len(data) /\ data[i + c + 1] = data[i + 1] /\ c < 256
  IN CHOOSE c \in count..256 :
       /\ ~goesOn(c)
       /\ \A b \in count..(c - 1) : goesOn(b)

RunLength(data, i, count) ==
  LET goesOn(c) == i + c < Len(data) /\ data[i + c + 1] = data[i + 1] /\ c < 255
  IN CHOOSE c \in count..255 :
       /\ ~goesOn(c)
       /\ \A b \in count..(c - 1) : goesOn(b)

\* a forward scan that stores one less than the run length
RECURSIVE PreprocessFrom_ShortCount(_, _)
PreprocessFrom_ShortCount(data, i) ==
  IF i < Len(data)
  THEN LET count == RunLength(data, i, 1)
           currentByte == data[i + 1]
       IN (IF count >= 4 THEN <<255, count - 1, currentByte>>
                         ELSE Repeat(currentByte, count))
          \o PreprocessFrom_ShortCount(data, i + count)
  ELSE <<>>

RECURSIVE PreprocessFrom(_, _)
PreprocessFrom(data, i) ==
  IF i < Len(data)
  THEN LET count == RunLength(data, i, 1)
           currentByte == data[i + 1]
       IN (IF count >= 4 THEN <<255, count, currentByte>>
                         ELSE Repeat(currentByte, count))
          \o PreprocessFrom(data, i + count)
  ELSE <<>>

preprocessData(data) == PreprocessFrom(data, 0)

\* an inverse scan that wants three more bytes after the sentinel
RECURSIVE ReverseRleFrom_ThreeMore(_, _)
ReverseRleFrom_ThreeMore(d, i) ==
  IF i < Len(d)
  THEN IF d[i + 1] = 255 /\ i + 3 < Len(d)
       THEN Repeat(d[i + 3], d[i + 2]) \o ReverseRleFrom_ThreeMore(d, i + 3)
       ELSE <<d[i + 1]>> \o ReverseRleFrom_ThreeMore(d, i + 1)
  ELSE <<>>

\* the "Reverse RLE preprocessing" loop of huffmanDecompress
RECURSIVE ReverseRleFrom(_, _)
ReverseRleFrom(d, i) ==
  IF i < Len(d)
  THEN IF d[i + 1] = 255 /\ i + 2 < Len(d)
       THEN Repeat(d[i + 3], d[i + 2]) \o ReverseRleFrom(d, i + 3)
       ELSE <<d[i + 1]>> \o ReverseRleFrom(d, i + 1)
  ELSE <<>>

ReverseRle(d) == ReverseRleFrom(d, 0)

----------------------------------------------------------------------------
(* 4.3 Frequency analyzer                                                  *)

\* 0x25, 0x50, 0x44, 0x46, 0x0A, 0x0D, 0x20, 0x2F, 0x3E
pdfPatterns == {37, 80, 68, 70, 10, 13, 32, 47, 62}

\* a boost that rounds to the nearest integer
Boost_Rounded(c) == (c * 6 + 2) \div 5

\* Math.floor(c * 1.2): the double product is the exact integer when c is a
\* multiple of 5 and keeps a fraction of at least 0.2 otherwise.
Boost(c) == (c * 6) \div 5

buildFrequencyTable(data) ==
  LET freq == [b \in Range(data) |-> Cardinality({i \in DOMAIN data : data[i] = b})]
  IN [b \in DOMAIN freq |->
        IF b \in pdfPatterns /\ freq[b] # 0 THEN Boost(freq[b]) ELSE freq[b]]

\* Object.keys(freqTable): integer-like keys come out in ascending order
RECURSIVE AscendingKeys(_)
AscendingKeys(S) ==
  IF S = {} THEN <<>>
  ELSE LET m == CHOOSE x \in S : \A y \in S : x <= y
       IN <<m>> \o AscendingKeys(S \ {m})

----------------------------------------------------------------------------
(* 4.4 Huffman tree builder                                                *)

\* Object.entries(freqTable).sort((a, b) => a[1] - b[1]): stable, by count
RECURSIVE InsertByFreq(_, _, _)
InsertByFreq(sorted, k, freqTable) ==
  IF sorted = <<>> THEN <<k>>
  ELSE IF freqTable[sorted[Len(sorted)]] - freqTable[k] <= 0 THEN Append(sorted, k)
  ELSE Append(InsertByFreq(SubSeq(sorted, 1, Len(sorted) - 1), k, freqTable),
              sorted[Len(sorted)])

RECURSIVE SortByFreq(_, _)
SortByFreq(keys, freqTable) ==
  IF keys = <<>> THEN <<>>
  ELSE InsertByFreq(SortByFreq(SubSeq(keys, 1, Len(keys) - 1), freqTable),
                    keys[Len(keys)], freqTable)

sortedFreqs(freqTable) == SortByFreq(AscendingKeys(DOMAIN freqTable), freqTable)

\* the for loop that enqueues one leaf per entry
RECURSIVE EnqueueLeaves(_, _, _)
EnqueueLeaves(items, keys, freqTable) ==
  IF keys = <<>> THEN items
  ELSE EnqueueLeaves(
         Enqueue(items, HuffmanNode(Head(keys), freqTable[Head(keys)], NullNode, NullNode)),
         Tail(keys), freqTable)

\* a merge loop that gives the merged node its left child's weight
RECURSIVE MergeLoop_LeftWeight(_)
MergeLoop_LeftWeight(items) ==
  IF Len(items) > 1
  THEN LET left == items[1]
           right == items[2]
           merged == HuffmanNode(NullChar, left.freq, left, right)
       IN MergeLoop_LeftWeight(Enqueue(Tail(Tail(items)), merged))
  ELSE items

\* while (pq.size() > 1) { left, right = dequeue x2; enqueue(merged) }
RECURSIVE MergeLoop(_)
MergeLoop(items) ==
  IF Len(items) > 1
  THEN LET left == items[1]
           right == items[2]
           merged == HuffmanNode(NullChar, left.freq + right.freq, left, right)
       IN MergeLoop(Enqueue(Tail(Tail(items)), merged))
  ELSE items

buildHuffmanTree(freqTable) ==
  LET pq == EnqueueLeaves(<<>>, sortedFreqs(freqTable), freqTable)
  IN IF Len(pq) = 1
     THEN HuffmanNode(NullChar, pq[1].freq, pq[1], NullNode)
     ELSE DequeueItem(MergeLoop(pq))

----------------------------------------------------------------------------
(* 4.5 Code table builder                                                  *)

\* a traversal that labels both edges '0'
RECURSIVE Traverse_SameLabel(_, _)
Traverse_SameLabel(node, code) ==
  IF node.char # NullChar
  THEN <<<<node.char, IF code = <<>> THEN <<0>> ELSE code>>>>
  ELSE (IF TruthyNode(node.left) THEN Traverse_SameLabel(node.left, Append(code, 0))
        ELSE <<>>)
       \o (IF TruthyNode(node.right) THEN Traverse_SameLabel(node.right, Append(code, 0))
           ELSE <<>>)

\* traverse(node, code): the assignments codes[char] = code it performs, in
\* order, as <<char, code>> pairs
RECURSIVE Traverse(_, _)
Traverse(node, code) ==
  IF node.char # NullChar
  THEN <<<<node.char, IF code = <<>> THEN <<0>> ELSE code>>>>
  ELSE (IF TruthyNode(node.left) THEN Traverse(node.left, Append(code, 0)) ELSE <<>>)
       \o (IF TruthyNode(node.right) THEN Traverse(node.right, Append(code, 1)) ELSE <<>>)

\* the object the assignments leave behind: the last write to a key wins
CodesOf(assigns) ==
  [c \in {assigns[i][1] : i \in DOMAIN assigns} |->
     LET last == CHOOSE i \in DOMAIN assigns :
                   /\ assigns[i][1] = c
                   /\ \A j \in DOMAIN assigns : assigns[j][1] = c => j <= i
     IN assigns[last][2]]

\* buildCodes(root); reading root.char of undefined is a TypeError
BuildCodesThrows(root) == root = Undefined \/ root = NullNode
buildCodes(root) == CodesOf(Traverse(root, <<>>))

----------------------------------------------------------------------------
(* 4.6 Bit packer / unpacker                                               *)

\* parseInt(s, 2) of a string of binary digits
RECURSIVE ParseBinary(_)
ParseBinary(bits) ==
  IF bits = <<>> THEN 0
  ELSE 2 * ParseBinary(SubSeq(bits, 1, Len(bits) - 1)) + bits[Len(bits)]

\* n.toString(2)
RECURSIVE ToBinary(_)
ToBinary(n) == IF n < 2 THEN <<n>> ELSE Append(ToBinary(n \div 2), n % 2)

\* s.padStart(8, '0')
PadStart8(s) == IF Len(s) >= 8 THEN s ELSE Repeat(0, 8 - Len(s)) \o s

\* a packer that forgets the outer modulo of the padding
packBits_NoOuterMod(bitString) ==
  LET padding == 8 - (Len(bitString) % 8)
      paddedString == IF padding > 0 THEN bitString \o Repeat(0, padding) ELSE bitString
  IN [bytes |-> [k \in 1..CeilDiv(Len(paddedString), 8) |->
                   ParseBinary(SubSeq(paddedString, 8 * (k - 1) + 1, 8 * k))],
      padding |-> padding]

packBits(bitString) ==
  LET padding == (8 - (Len(bitString) % 8)) % 8
      paddedString == IF padding > 0 THEN bitString \o Repeat(0, padding) ELSE bitString
  IN [bytes |-> [k \in 1..CeilDiv(Len(paddedString), 8) |->
                   ParseBinary(SubSeq(paddedString, 8 * (k - 1) + 1, 8 * k))],
      padding |-> padding]

RECURSIVE ConcatBytes(_, _)
ConcatBytes(bytes, i) ==
  IF i < Len(bytes)
  THEN PadStart8(ToBinary(bytes[i + 1])) \o ConcatBytes(bytes, i + 1)
  ELSE <<>>

\* bitString.slice(0, -padding)
SliceOffEnd(s, n) == SubSeq(s, 1, Max(0, Len(s) - n))

unpackBits(bytes, padding) ==
  LET bitString == ConcatBytes(bytes, 0)
  IN IF padding > 0 THEN SliceOffEnd(bitString, padding) ELSE bitString

----------------------------------------------------------------------------
(* 4.7 Statistics.  Numbers that the code formats with toFixed are kept as *)
(* scaled integers: Fixed(v, d) is the string of v / 10^d with d decimals; *)
(* Num(n) is the plain number n.                                           *)

Num(n) == [t |-> "num", v |-> n]
Fixed(v, d) == [t |-> "fixed", v |-> v, d |-> d]

\* Math.log2(n) in millionths of a bit, n in 1..40
Log2Micro ==
  <<0, 1000000, 1584963, 2000000, 2321928, 2584963, 2807355, 3000000,
    3169925, 3321928, 3459432, 3584963, 3700440, 3807355, 3906891, 4000000,
    4087463, 4169925, 4247928, 4321928, 4392317, 4459432, 4523562, 4584963,
    4643856, 4700440, 4754888, 4807355, 4857981, 4906891, 4954196, 5000000,
    5044394, 5087463, 5129283, 5169925, 5209453, 5247928, 5285402, 5321928>>

RECURSIVE SumOver(_, _)
SumOver(f, S) ==
  IF S = {} THEN 0
  ELSE LET x == CHOOSE y \in S : TRUE IN f[x] + SumOver(f, S \ {x})

\* calculateEntropy(freqTable, totalLength) * totalLength, in 1e-4 bits:
\* -sum p*log2(p) with p = c / totalLength is sum c*(log2 total - log2 c) / total
EntropyTimesTotal(freqTable, totalLength) ==
  SumOver([b \in DOMAIN freqTable |->
             freqTable[b] * (Log2Micro[totalLength] - Log2Micro[freqTable[b]])],
          DOMAIN freqTable) \div 100

\* entropy.toFixed(2)
EntropyFixed(freqTable, totalLength) ==
  Fixed(RoundDiv(EntropyTimesTotal(freqTable, totalLength), totalLength * 100), 2)

\* Math.ceil(originalSize * entropy / 8), entropy = et / (10000 * total)
TheoreticalMin(originalSize, et, total) ==
  0 - ((0 - originalSize * et) \div (80000 * total))

\* calculateEfficiency(...).toFixed(1) with compressedSize = sizeNum / sizeDen
EfficiencyFixed(theoreticalMin, sizeNum, sizeDen) ==
  IF theoreticalMin > 0
  THEN Fixed(Min(RoundDiv(theoreticalMin * 1000 * sizeDen, sizeNum), 1000), 1)
  ELSE Fixed(1000, 1)

\* ((originalSize - compressedSize) / originalSize * 100).toFixed(2)
RatioFixed(originalSize, compressedSize) ==
  Fixed(RoundDiv((originalSize - compressedSize) * 10000, originalSize), 2)

----------------------------------------------------------------------------
(* huffmanCompress (after the buffer has been read)                        *)

\* the encode loop: codes[preprocessedData[i]] appended for every i
RECURSIVE EncodeFrom(_, _, _)
EncodeFrom(data, codes, i) ==
  IF i < Len(data) THEN codes[data[i + 1]] \o EncodeFrom(data, codes, i + 1) ELSE <<>>

\* A percentage handed to onProgress is the fraction n / d.  The doubles the
\* code computes round these fractions, and rounding keeps their order.
Percent(n) == [n |-> n, d |-> 1]

\* a <= b
PercentLeq(a, b) == IF a.d = b.d THEN a.n <= b.n ELSE a.n * b.d <= b.n * a.d

\* the number a whole percentage is
PercentValue(a) == a.n \div a.d

\* an encode loop that scales by the chunk size instead of the length
EncodeReports_PerChunk(length) ==
  [k \in 1..CeilDiv(length, 10000) |-> Percent(70 + (k - 1) * 20)]

\* the percentages the encode loop reports: one for every i that is a
\* multiple of 10000, 70 + (i / length) * 20
EncodeReports(length) ==
  [k \in 1..CeilDiv(length, 10000) |->
     [n |-> 70 * length + (k - 1) * 10000 * 20, d |-> length]]

huffmanCompress(data) ==
  LET preprocessedData == preprocessData(data)
      freqTable == buildFrequencyTable(preprocessedData)
      uniqueBytes == Cardinality(DOMAIN freqTable)
  IN IF uniqueBytes = 1
     THEN LET char == CHOOSE b \in DOMAIN freqTable : TRUE
              count == freqTable[char]
          IN [threw |-> FALSE,
              compressed |-> <<char>>,
              tree |-> HuffmanNode(char, count, NullNode, NullNode),
              codes |-> [c \in {char} |-> <<0>>],
              originalSize |-> Len(data),
              compressedSize |-> 1,
              compressionRatio |-> RatioFixed(Len(data), 1),
              originalData |-> data,
              singleChar |-> TRUE,
              charCount |-> count,
              preprocessedSize |-> Len(preprocessedData),
              entropy |-> Num(0),
              efficiency |-> Num(100),
              padding |-> 0,
              uniqueBytes |-> 1]
     ELSE LET tree == buildHuffmanTree(freqTable)
          IN IF BuildCodesThrows(tree)
             THEN [threw |-> TRUE,
                   message |-> "Cannot read properties of undefined (reading 'char')"]
             ELSE LET codes == buildCodes(tree)
                      compressedBits == EncodeFrom(preprocessedData, codes, 0)
                      packed == packBits(compressedBits)
                      originalSize == Len(data)
                      compressedSize == Len(packed.bytes)
                      et == EntropyTimesTotal(freqTable, Len(preprocessedData))
                  IN [threw |-> FALSE,
                      compressed |-> packed.bytes,
                      compressedBits |-> compressedBits,
                      tree |-> tree,
                      codes |-> codes,
                      originalSize |-> originalSize,
                      compressedSize |-> compressedSize,
                      compressionRatio |->
                        IF originalSize > 0 THEN RatioFixed(originalSize, compressedSize)
                        ELSE Fixed(0, 2),
                      originalData |-> data,
                      preprocessedData |-> preprocessedData,
                      preprocessedSize |-> Len(preprocessedData),
                      padding |-> packed.padding,
                      uniqueBytes |-> uniqueBytes,
                      entropy |-> EntropyFixed(freqTable, Len(preprocessedData)),
                      efficiency |->
                        EfficiencyFixed(
                          TheoreticalMin(originalSize, et, Len(preprocessedData)),
                          compressedSize, 1)]

\* the onProgress calls of one huffmanCompress call, in order, given the
\* number of keys of the frequency table, whether buildCodes throws, and
\* preprocessedData.length
ProgressReports(uniqueBytes, throws, length) ==
  IF uniqueBytes = 1 THEN <<Percent(10), Percent(30)>>
  ELSE IF throws THEN <<Percent(10), Percent(30), Percent(50)>>
  ELSE <<Percent(10), Percent(30), Percent(50), Percent(70)>>
         \o EncodeReports(length) \o <<Percent(90), Percent(100)>>

CompressProgress(data) ==
  LET preprocessedData == preprocessData(data)
      freqTable == buildFrequencyTable(preprocessedData)
  IN ProgressReports(Cardinality(DOMAIN freqTable),
                     BuildCodesThrows(buildHuffmanTree(freqTable)),
                     Len(preprocessedData))

----------------------------------------------------------------------------
(* huffmanDecompress                                                       *)

\* storing a value into a Uint8Array: undefined becomes 0, numbers wrap
ToUint8(v) == IF v < 0 THEN 0 ELSE v % 256

\* where one bit takes the traversal (no move when the child is missing)
StepNode(current, bit) ==
  IF bit = 0 /\ TruthyNode(current.left) THEN current.left
  ELSE IF bit = 1 /\ TruthyNode(current.right) THEN current.right
  ELSE current

\* the bit has no corresponding child at the current node
NoChildFor(current, bit) ==
  \/ bit = 0 /\ ~TruthyNode(current.left)
  \/ bit = 1 /\ ~TruthyNode(current.right)

\* the decode loop: the values pushed to result
RECURSIVE DecodeFrom(_, _, _, _)
DecodeFrom(bitString, i, current, tree) ==
  IF i < Len(bitString)
  THEN LET next == StepNode(current, bitString[i + 1])
       IN IF next.char # NullChar
          THEN <<ToUint8(next.char)>> \o DecodeFrom(bitString, i + 1, tree, tree)
          ELSE DecodeFrom(bitString, i + 1, next, tree)
  ELSE <<>>

\* whether the decode loop met a bit with no corresponding child
RECURSIVE WalksOffTree(_, _, _, _)
WalksOffTree(bitString, i, current, tree) ==
  IF i < Len(bitString)
  THEN LET next == StepNode(current, bitString[i + 1])
       IN \/ NoChildFor(current, bitString[i + 1])
          \/ WalksOffTree(bitString, i + 1,
                          IF next.char # NullChar THEN tree ELSE next, tree)
  ELSE FALSE

\* originalSize is a number, or UndefChar when the metadata has none
huffmanDecompress(compressedData, tree, padding, originalSize) ==
  IF ~TruthyNode(tree) THEN <<>>
  ELSE IF tree.char # NullChar /\ tree.left = NullNode /\ tree.right = NullNode
  THEN Repeat(ToUint8(tree.char), Max(0, originalSize))
  ELSE ReverseRle(DecodeFrom(unpackBits(compressedData, padding), 0, tree, tree))

----------------------------------------------------------------------------
(* Text.  A string is the sequence of the character codes of its           *)
(* characters (TextEncoder / TextDecoder on ASCII text).                   *)

\* the printable ASCII characters, code 32 first (three of them by name)
AsciiChars ==
  <<
    " ", "!", "quote", "#", "$", "%", "&", "'", "(", ")", "*", "+", ",", "-", ".", "/",
    "0", "1", "2", "3", "4", "5", "6", "7", "8", "9", ":", ";", "<", "=", ">", "?",
    "@", "A", "B", "C", "D", "E", "F", "G", "H", "I", "J", "K", "L", "M", "N", "O",
    "P", "Q", "R", "S", "T", "U", "V", "W", "X", "Y", "Z", "[", "backslash", "]", "^", "_",
    "backtick", "a", "b", "c", "d", "e", "f", "g", "h", "i", "j", "k", "l", "m", "n", "o",
    "p", "q", "r", "s", "t", "u", "v", "w", "x", "y", "z", "{", "|", "}", "~"
  >>

Asc(c) == 31 + (CHOOSE i \in DOMAIN AsciiChars : AsciiChars[i] = c)
Str(cs) == [i \in DOMAIN cs |-> Asc(cs[i])]

RECURSIVE Digits(_)
Digits(n) == IF n < 10 THEN <<48 + n>> ELSE Append(Digits(n \div 10), 48 + (n % 10))

\* String(n) of an integer
NumText(n) == IF n < 0 THEN <<45>> \o Digits(0 - n) ELSE Digits(n)

\* the d digits of a fraction, zero-padded on the left
RECURSIVE FracDigits(_, _)
FracDigits(n, d) == IF d = 0 THEN <<>> ELSE Append(FracDigits(n \div 10, d - 1), 48 + (n % 10))

Pow10(d) == IF d = 1 THEN 10 ELSE 100

\* the text x.toFixed(d) gives for the scaled value v
FixedText(v, d) ==
  LET a == IF v < 0 THEN 0 - v ELSE v
  IN (IF v < 0 THEN <<45>> ELSE <<>>)
     \o Digits(a \div Pow10(d)) \o <<46>> \o FracDigits(a % Pow10(d), d)

Quoted(text) == <<34>> \o text \o <<34>>

\* JSON.stringify of a statistic: a number, or the string toFixed made
StatText(x) == IF x.t = "num" THEN NumText(x.v) ELSE Quoted(FixedText(x.v, x.d))

\* "key":
Key(cs) == Quoted(Str(cs)) \o <<58>>

----------------------------------------------------------------------------
(* serializeTree / JSON.stringify of the tree                              *)

\* JSON.stringify(serializeTree(node))
RECURSIVE TreeText(_)
TreeText(node) ==
  IF ~TruthyNode(node) THEN Str(<<"n", "u", "l", "l">>)
  ELSE <<123>>
       \o Key(<<"c", "h", "a", "r">>)
       \o (IF node.char = NullChar THEN Str(<<"n", "u", "l", "l">>) ELSE NumText(node.char))
       \o <<44>> \o Key(<<"f", "r", "e", "q">>) \o NumText(node.freq)
       \o <<44>> \o Key(<<"l", "e", "f", "t">>) \o TreeText(node.left)
       \o <<44>> \o Key(<<"r", "i", "g", "h", "t">>) \o TreeText(node.right)
       \o <<125>>

----------------------------------------------------------------------------
(* downloadCompressed: the container                                       *)

\* DataView.setUint32(offset, n, true): four bytes, little-endian
U32LE(n) ==
  <<n % 256, (n \div 256) % 256, (n \div 65536) % 256, (n \div 16777216) % 256>>

\* JSON.stringify(metadata) for the result and the name of the selected file
MetadataText(res, fileName) ==
  <<123>>
  \o Key(<<"o","r","i","g","i","n","a","l","S","i","z","e">>) \o NumText(res.originalSize)
  \o <<44>> \o Key(<<"p","a","d","d","i","n","g">>) \o NumText(res.padding)
  \o <<44>> \o Key(<<"u","n","i","q","u","e","B","y","t","e","s">>)
            \o NumText(res.uniqueBytes)
  \o <<44>> \o Key(<<"e","n","t","r","o","p","y">>) \o StatText(res.entropy)
  \o <<44>> \o Key(<<"c","o","m","p","r","e","s","s","i","o","n","R","a","t","i","o">>)
            \o StatText(res.compressionRatio)
  \o <<44>> \o Key(<<"o","r","i","g","i","n","a","l","F","i","l","e","N","a","m","e">>)
            \o Quoted(fileName)
  \o <<44>> \o Key(<<"e","f","f","i","c","i","e","n","c","y">>) \o StatText(res.efficiency)
  \o <<44>> \o Key(<<"v","e","r","s","i","o","n">>) \o Quoted(Str(<<"1", ".", "1">>))
  \o <<125>>

\* the combined buffer: header, metadata, tree, payload
Container(res, fileName) ==
  LET metadataBytes == MetadataText(res, fileName)
      treeBytes == TreeText(res.tree)
  IN U32LE(Len(metadataBytes)) \o U32LE(Len(treeBytes))
     \o metadataBytes \o treeBytes \o res.compressed

----------------------------------------------------------------------------
(* JSON.parse, for the texts that reach it here: null, integers, strings   *)
(* without escapes and objects of these, with no white space.  A parsed    *)
(* value is JNull, JNum(n), JStr(text) or JObj(members); JUndef stands for *)
(* the undefined that reading a missing property gives.                    *)

JNull == [t |-> "null"]
JUndef == [t |-> "undef"]
JNum(n) == [t |-> "num", v |-> n]
JStr(text) == [t |-> "str", v |-> text]
JObj(members) == [t |-> "obj", v |-> members]

ParseFail == [ok |-> FALSE]
Parsed(v, next) == [ok |-> TRUE, v |-> v, next |-> next]

\* the code at position p, or 0 behind the end
At(text, p) == IF p \in DOMAIN text THEN text[p] ELSE 0
IsDigit(c) == c \in 48..57

RECURSIVE ParseDigits(_, _, _)
ParseDigits(text, p, acc) ==
  IF IsDigit(At(text, p)) THEN ParseDigits(text, p + 1, 10 * acc + (text[p] - 48))
  ELSE Parsed(JNum(acc), p)

\* digits without a leading zero
ParseUnsigned(text, q) ==
  IF ~IsDigit(At(text, q)) THEN ParseFail
  ELSE IF At(text, q) = 48 /\ IsDigit(At(text, q + 1)) THEN ParseFail
  ELSE ParseDigits(text, q, 0)

Negated(r) == IF r.ok THEN Parsed(JNum(0 - r.v.v), r.next) ELSE r

ParseNumber(text, p) ==
  IF At(text, p) = 45 THEN Negated(ParseUnsigned(text, p + 1))
  ELSE ParseUnsigned(text, p)

\* the string from the quote at p to the quote at close; escapes and
\* control characters do not occur in the texts of the input set and fail
StringBody(text, p, close) ==
  IF \E b \in (p + 1)..(close - 1) : text[b] = 92 \/ text[b] < 32 THEN ParseFail
  ELSE Parsed(JStr(SubSeq(text, p + 1, close - 1)), close + 1)

ParseString(text, p) ==
  IF At(text, p) # 34 THEN ParseFail
  ELSE IF \A e \in (p + 1)..Len(text) : text[e] # 34 THEN ParseFail
  ELSE StringBody(text, p,
                  CHOOSE e \in (p + 1)..Len(text) :
                    text[e] = 34 /\ \A b \in (p + 1)..(e - 1) : text[b] # 34)

RECURSIVE ParseValue(_, _)
RECURSIVE ParseMembers(_, _, _)

ParseValue(text, p) ==
  LET c == At(text, p)
  IN IF c = 110
     THEN IF p + 3 <= Len(text) /\ SubSeq(text, p, p + 3) = Str(<<"n", "u", "l", "l">>)
          THEN Parsed(JNull, p + 4) ELSE ParseFail
     ELSE IF c = 34 THEN ParseString(text, p)
     ELSE IF c = 45 \/ IsDigit(c) THEN ParseNumber(text, p)
     ELSE IF c = 123
     THEN IF At(text, p + 1) = 125 THEN Parsed(JObj(<<>>), p + 2)
          ELSE ParseMembers(text, p + 1, <<>>)
     ELSE ParseFail

\* "key":value pairs up to the closing brace; a later pair replaces an
\* earlier one with the same key
RECURSIVE AfterKey(_, _, _)
RECURSIVE AfterValue(_, _, _, _)

ParseMembers(text, p, acc) == AfterKey(text, ParseString(text, p), acc)

AfterKey(text, k, acc) ==
  IF ~k.ok \/ At(text, k.next) # 58 THEN ParseFail
  ELSE AfterValue(text, k.v.v, ParseValue(text, k.next + 1), acc)

AfterValue(text, key, v, acc) ==
  IF ~v.ok THEN ParseFail
  ELSE IF At(text, v.next) = 44
  THEN ParseMembers(text, v.next + 1, (key :> v.v) @@ acc)
  ELSE IF At(text, v.next) = 125
  THEN Parsed(JObj((key :> v.v) @@ acc), v.next + 1)
  ELSE ParseFail

\* the whole text is one value
WholeText(text, r) == IF r.ok /\ r.next = Len(text) + 1 THEN r ELSE ParseFail

\* JSON.parse(text): ok, or a SyntaxError
JSONParse(text) == WholeText(text, ParseValue(text, 1))

\* value.key
Get(value, key) ==
  IF value.t = "obj" /\ Str(key) \in DOMAIN value.v THEN value.v[Str(key)] ELSE JUndef

\* !value
Falsy(value) ==
  \/ value.t \in {"null", "undef"}
  \/ value.t = "num" /\ value.v = 0
  \/ value.t = "str" /\ value.v = <<>>

\* a char / freq / size field as the model's number: null and undefined
\* keep their own markers (the fields are numbers, null or missing in every
\* container of the input set)
NumberOf(value) ==
  IF value.t = "num" THEN value.v
  ELSE IF value.t = "null" THEN NullChar
  ELSE UndefChar

RECURSIVE deserializeTree(_)
deserializeTree(data) ==
  IF Falsy(data) THEN NullNode
  ELSE HuffmanNode(NumberOf(Get(data, <<"c", "h", "a", "r">>)),
                   NumberOf(Get(data, <<"f", "r", "e", "q">>)),
                   deserializeTree(Get(data, <<"l", "e", "f", "t">>)),
                   deserializeTree(Get(data, <<"r", "i", "g", "h", "t">>)))

----------------------------------------------------------------------------
(* processFile, decompress branch: everything behind the file read         *)

\* DataView.getUint32(offset, true)
GetUint32(data, offset) ==
  data[offset + 1] + 256 * data[offset + 2] + 65536 * data[offset + 3]
    + 16777216 * data[offset + 4]

\* data.slice(from, to)
Slice(data, from, to) == SubSeq(data, from + 1, Min(to, Len(data)))

\* the header check with the tree length left out
CorruptedHeader_MetadataOnly(data, metadataLength, treeLength) ==
  8 + metadataLength > Len(data)

\* 8 + metadataLength + treeLength > data.length
CorruptedHeader(data, metadataLength, treeLength) ==
  8 + metadataLength + treeLength > Len(data)

\* the outcome of the inner try block on the bytes read: the error thrown
\* (thrown = TRUE, with the progress reached) or the values handed to
\* setDecompressedFile and setResult
Thrown(progress, message) == [thrown |-> TRUE, progress |-> progress, message |-> message]

\* setDecompressedFile(blob), setResult({...})
StoreDecompressed(metadata, compressedData, decompressed) ==
  [thrown |-> FALSE, progress |-> 100,
   decompressed |-> decompressed,
   result |->
     [originalSize |-> Get(metadata, <<"o", "r", "i", "g", "i", "n", "a", "l", "S", "i", "z", "e">>),
      compressedSize |-> Len(compressedData),
      compressionRatio |-> Get(metadata, <<"c", "o", "m", "p", "r", "e", "s", "s", "i", "o", "n", "R", "a", "t", "i", "o">>),
      entropy |-> Get(metadata, <<"e", "n", "t", "r", "o", "p", "y">>),
      uniqueBytes |-> Get(metadata, <<"u", "n", "i", "q", "u", "e", "B", "y", "t", "e", "s">>),
      originalFileName |-> Get(metadata, <<"o", "r", "i", "g", "i", "n", "a", "l", "F", "i", "l", "e", "N", "a", "m", "e">>),
      efficiency |->
        IF Falsy(Get(metadata, <<"e", "f", "f", "i", "c", "i", "e", "n", "c", "y">>))
        THEN JStr(Str(<<"N", "/", "A">>))
        ELSE Get(metadata, <<"e", "f", "f", "i", "c", "i", "e", "n", "c", "y">>),
      decompressedSize |-> Len(decompressed)]]

\* from the rebuilt tree on
DecodeData(metadata, tree, compressedData) ==
  IF ~TruthyNode(tree) THEN Thrown(60, "Failed to rebuild Huffman tree")
  ELSE IF metadata.t = "null"
  THEN Thrown(80, "Cannot read properties of null (reading 'padding')")
  ELSE StoreDecompressed(
         metadata, compressedData,
         huffmanDecompress(compressedData, tree,
                           IF Falsy(Get(metadata, <<"p", "a", "d", "d", "i", "n", "g">>)) THEN 0
                           ELSE NumberOf(Get(metadata, <<"p", "a", "d", "d", "i", "n", "g">>)),
                           NumberOf(Get(metadata, <<"o", "r", "i", "g", "i", "n", "a", "l", "S", "i", "z", "e">>))))

\* from the two JSON.parse calls on
RebuildTree(metadataParse, treeParse, compressedData) ==
  IF ~metadataParse.ok \/ ~treeParse.ok THEN Thrown(40, "SyntaxError")
  ELSE DecodeData(metadataParse.v, deserializeTree(treeParse.v), compressedData)

\* from the header lengths on
ReadBlocks(data, metadataLength, treeLength) ==
  IF CorruptedHeader(data, metadataLength, treeLength)
  THEN Thrown(40, "Invalid .huf file: corrupted header")
  ELSE RebuildTree(JSONParse(Slice(data, 8, 8 + metadataLength)),
                   JSONParse(Slice(data, 8 + metadataLength,
                                   8 + metadataLength + treeLength)),
                   Slice(data, 8 + metadataLength + treeLength, Len(data)))

DecompressOutcome(data) ==
  IF Len(data) < 8 THEN Thrown(40, "File too small to be a valid .huf file")
  ELSE ReadBlocks(data, GetUint32(data, 0), GetUint32(data, 4))

----------------------------------------------------------------------------
(* Input sets                                                              *)

RECURSIVE SeqsUpTo(_, _)
SeqsUpTo(S, n) ==
  IF n = 0 THEN {<<>>}
  ELSE LET shorter == SeqsUpTo(S, n - 1)
       IN shorter \cup {Append(s, x) : s \in {t \in shorter : Len(t) = n - 1}, x \in S}

\* buffers of the scenarios the specification names, and runs longer than
\* the 255 cap
ScenarioBuffers ==
  { <<65, 65, 65, 65, 65, 66>>, <<7, 7, 7, 7, 7>>,
    <<32, 32, 7, 32, 32, 32>>, Repeat(65, 256), Repeat(65, 259) \o <<66>> }

Buffers == SeqsUpTo(Alphabet, MaxLen) \cup ScenarioBuffers

\* frequency tables: every table over a subset of TreeBytes, counts 1..MaxFreq
TreeBytes == {0, 7, 32, 65, 255}
FreqTables == UNION {[S -> 1..MaxFreq] : S \in SUBSET TreeBytes}

\* payloads decoded against the trees
PayloadBytes == {0, 90, 255}
Payloads == SeqsUpTo(PayloadBytes, MaxPayload) \X {0, 5}

\* bit strings: a pattern of up to SeedLen bits repeated to any length up to
\* MaxBits
Periodic(seed, n) == [i \in 1..n |-> seed[((i - 1) % Len(seed)) + 1]]
BitStrings ==
  {Periodic(seed, n) : seed \in SeqsUpTo({0, 1}, SeedLen) \ {<<>>}, n \in 0..MaxBits}
    \cup SeqsUpTo({0, 1}, MaxAllBits)

IdleCodec ==
  /\ cpc = "idle" /\ originalData = <<>> /\ cres = NullNode /\ progressLog = <<>>
  /\ dout = <<>> /\ rleData = <<>> /\ rleBack = <<>> /\ freqOut = <<>>

IdleTree ==
  /\ tpc = "idle" /\ table = <<>> /\ treeRoot = NullNode /\ codeTable = <<>>
  /\ payload = <<>> /\ decoded = <<>> /\ walkedOff = FALSE

IdleBits ==
  /\ bpc = "idle" /\ bitsIn = <<>> /\ packedOut = NullNode /\ bitsOut = <<>>

IdleProgress ==
  /\ gpc = "idle" /\ shapeUnique = 0 /\ shapeLength = 0 /\ reported = <<>>

\* a queue as its constructor leaves it, nothing dequeued
IdleQueue == pqItems = <<>> /\ pqOut = NullNode

\* the component as useState initialises it
IdleApp ==
  /\ file = NullNode /\ mode = "compress" /\ isProcessing = FALSE
  /\ result = NullNode /\ decompressedFile = NullNode
  /\ processingProgress = 0 /\ processingStatus = ""
  /\ runs = {} /\ timers = {} /\ started = 0 /\ downloads = <<>>

----------------------------------------------------------------------------
(* Codec runs: huffmanCompress and huffmanDecompress, and the two RLE      *)
(* scans, applied to every buffer of the input set.                        *)

Init ==
  /\ cpc = "input"
  /\ originalData \in Buffers
  /\ cres = NullNode
  /\ progressLog = <<>>
  /\ dout = <<>>
  /\ rleData = <<>>
  /\ rleBack = <<>>
  /\ freqOut = <<>>
  /\ IdleTree /\ IdleBits /\ IdleProgress /\ IdleQueue /\ IdleApp

\* huffmanCompress runs on the buffer
Compress ==
  /\ cpc = "input"
  /\ cres' = huffmanCompress(originalData)
  /\ progressLog' = CompressProgress(originalData)
  /\ cpc' = "compressed"
  /\ UNCHANGED <<originalData, dout, rleData, rleBack, freqOut>>
  /\ UNCHANGED notCodec

\* huffmanDecompress runs on the fields of the compression result
Decompress ==
  /\ cpc = "compressed"
  /\ ~cres.threw
  /\ dout' = huffmanDecompress(cres.compressed, cres.tree, cres.padding, cres.originalSize)
  /\ cpc' = "decompressed"
  /\ UNCHANGED <<originalData, cres, progressLog, rleData, rleBack, freqOut>>
  /\ UNCHANGED notCodec

\* preprocessData alone
ForwardRle ==
  /\ cpc = "input"
  /\ rleData' = preprocessData(originalData)
  /\ cpc' = "rle"
  /\ UNCHANGED <<originalData, cres, progressLog, dout, rleBack, freqOut>>
  /\ UNCHANGED notCodec

\* the reverse-RLE scan alone, on the output of preprocessData
InverseRle ==
  /\ cpc = "rle"
  /\ rleBack' = ReverseRle(rleData)
  /\ cpc' = "unrle"
  /\ UNCHANGED <<originalData, cres, progressLog, dout, rleData, freqOut>>
  /\ UNCHANGED notCodec

\* buildFrequencyTable alone, on the buffer
CountBytes ==
  /\ cpc = "input"
  /\ freqOut' = buildFrequencyTable(originalData)
  /\ cpc' = "counted"
  /\ UNCHANGED <<originalData, cres, progressLog, dout, rleData, rleBack>>
  /\ UNCHANGED notCodec

Next == Compress \/ Decompress \/ ForwardRle \/ InverseRle \/ CountBytes

Spec == Init /\ [][Next]_vars

----------------------------------------------------------------------------
(* Tree runs: buildHuffmanTree, then buildCodes, then huffmanDecompress    *)
(* against the tree, for every frequency table of the input set.           *)

InitTree ==
  /\ tpc = "table"
  /\ table \in FreqTables
  /\ treeRoot = NullNode
  /\ codeTable = <<>>
  /\ payload = <<>>
  /\ decoded = <<>>
  /\ walkedOff = FALSE
  /\ IdleCodec /\ IdleBits /\ IdleProgress /\ IdleQueue /\ IdleApp

BuildTree ==
  /\ tpc = "table"
  /\ treeRoot' = buildHuffmanTree(table)
  /\ tpc' = "built"
  /\ UNCHANGED <<table, codeTable, payload, decoded, walkedOff>>
  /\ UNCHANGED notTree

\* buildCodes(treeRoot); it throws on the undefined root of an empty table
BuildCodes ==
  /\ tpc = "built"
  /\ IF BuildCodesThrows(treeRoot)
     THEN tpc' = "threw" /\ UNCHANGED codeTable
     ELSE tpc' = "coded" /\ codeTable' = buildCodes(treeRoot)
  /\ UNCHANGED <<table, treeRoot, payload, decoded, walkedOff>>
  /\ UNCHANGED notTree

\* huffmanDecompress(payload, tree, padding, originalSize) on a tree with
\* children; the call returns normally whatever the bits are
Decode ==
  /\ tpc = "coded"
  /\ \E p \in Payloads :
       /\ payload' = p
       /\ decoded' = huffmanDecompress(p[1], treeRoot, p[2], treeRoot.freq)
       /\ walkedOff' = WalksOffTree(unpackBits(p[1], p[2]), 0, treeRoot, treeRoot)
  /\ tpc' = "decoded"
  /\ UNCHANGED <<table, treeRoot, codeTable>>
  /\ UNCHANGED notTree

NextTree == BuildTree \/ BuildCodes \/ Decode

SpecTree == InitTree /\ [][NextTree]_vars

----------------------------------------------------------------------------
(* Bit packer runs: packBits, then unpackBits on its result.               *)

InitBits ==
  /\ bpc = "bits"
  /\ bitsIn \in BitStrings
  /\ packedOut = NullNode
  /\ bitsOut = <<>>
  /\ IdleCodec /\ IdleTree /\ IdleProgress /\ IdleQueue /\ IdleApp

Pack ==
  /\ bpc = "bits"
  /\ packedOut' = packBits(bitsIn)
  /\ bpc' = "packed"
  /\ UNCHANGED <<bitsIn, bitsOut>>
  /\ UNCHANGED notBits

Unpack ==
  /\ bpc = "packed"
  /\ bitsOut' = unpackBits(packedOut.bytes, packedOut.padding)
  /\ bpc' = "unpacked"
  /\ UNCHANGED <<bitsIn, packedOut>>
  /\ UNCHANGED notBits

NextBits == Pack \/ Unpack

SpecBits == InitBits /\ [][NextBits]_vars

----------------------------------------------------------------------------
(* Queue runs: one PriorityQueue under every sequence of enqueue and       *)
(* dequeue calls, on leaves of bytes 0, 7 and 65 with weights up to        *)
(* MaxWeight and on the internal nodes buildHuffmanTree makes of a 0-leaf  *)
(* and a 7-leaf.                                                           *)

QueueLeaves ==
  {HuffmanNode(c, f, NullNode, NullNode) : c \in {0, 7, 65}, f \in 1..MaxWeight}

QueueNodes ==
  QueueLeaves \cup
  {HuffmanNode(NullChar, a.freq + b.freq, a, b) :
     a \in {n \in QueueLeaves : n.char = 0}, b \in {n \in QueueLeaves : n.char = 7}}

InitQueue ==
  /\ IdleQueue
  /\ IdleCodec /\ IdleTree /\ IdleBits /\ IdleProgress /\ IdleApp

\* pq.enqueue(node)
QueueEnqueue ==
  /\ Len(pqItems) < MaxQueue
  /\ \E node \in QueueNodes : pqItems' = Enqueue(pqItems, node)
  /\ UNCHANGED pqOut
  /\ UNCHANGED notQueue

\* pq.dequeue()
QueueDequeue ==
  /\ pqOut' = DequeueItem(pqItems)
  /\ pqItems' = DequeueRest(pqItems)
  /\ UNCHANGED notQueue

NextQueue == QueueEnqueue \/ QueueDequeue

SpecQueue == InitQueue /\ [][NextQueue]_vars

----------------------------------------------------------------------------
(* Progress runs: the onProgress calls of huffmanCompress for every shape  *)
(* of call: an empty table, a table of one key, and a general table with   *)
(* preprocessed data of every length around the multiples of 2500 up to    *)
(* MaxChunks chunks of 10000 bytes.                                        *)

EncodeLengths ==
  {n \in 2..(MaxChunks * 10000 + 1) : n <= 40 \/ n % 2500 <= 1 \/ n % 2500 = 2499}

InitProgress ==
  /\ gpc = "shape"
  /\ \/ shapeUnique = 0 /\ shapeLength = 0
     \/ shapeUnique = 1 /\ shapeLength \in 1..3
     \/ shapeUnique = 2 /\ shapeLength \in EncodeLengths
  /\ reported = <<>>
  /\ IdleCodec /\ IdleTree /\ IdleBits /\ IdleQueue /\ IdleApp

\* huffmanCompress runs to its return or its throw (buildCodes throws on
\* the undefined tree of an empty table)
Report ==
  /\ gpc = "shape"
  /\ reported' = ProgressReports(shapeUnique, shapeUnique = 0, shapeLength)
  /\ gpc' = "reported"
  /\ UNCHANGED <<shapeUnique, shapeLength>>
  /\ UNCHANGED notProgress

NextProgress == Report

SpecProgress == InitProgress /\ [][NextProgress]_vars
----------------------------------------------------------------------------
(* The FileCompressor component.  A File is [name, type, data]; reading it *)
(* (file.arrayBuffer()) is the one point where processFile is suspended,   *)
(* so a processFile call is two steps: the click up to the read, and the   *)
(* rest once the read has completed.  The notification banners (showAlert, *)
(* alertMessage, autoSwitchMessage) and the elapsed-time display are       *)
(* written by the handlers and read by the render only; they are not       *)
(* modelled.  The interval timer that refreshes the elapsed time is.       *)

PdfType == "application/pdf"
PdfName == Str(<<"a", ".", "p", "d", "f">>)
HufName == Str(<<"a", ".", "h", "u", "f">>)
TxtName == Str(<<"a", ".", "t", "x", "t">>)

\* selectedFile.name.endsWith('.huf')
EndsWithHuf(name) ==
  Len(name) >= 4 /\ SubSeq(name, Len(name) - 3, Len(name)) = Str(<<".", "h", "u", "f">>)

\* name.replace(/\.[^/.]+$/, '')
StripExtension(name) ==
  LET dots == {i \in DOMAIN name : name[i] = 46}
  IN IF dots = {} THEN name
     ELSE LET i == CHOOSE d \in dots : \A e \in dots : e <= d
          IN IF i < Len(name) /\ \A j \in (i + 1)..Len(name) : name[j] # 47
             THEN SubSeq(name, 1, i - 1) ELSE name

\* buffers the component compresses
AppBuffers == {<<>>, <<7>>, <<7, 7, 7, 7, 7>>}

\* 15 + Math.random() * 5, in hundredths
TargetRatios == {1500, 1999}

\* a well-formed container, as downloadCompressed writes it
GoodContainer == Container(huffmanCompress(<<7, 7, 7, 7, 7>>), PdfName)
NullText == Str(<<"n", "u", "l", "l">>)

\* contents of the .huf files: a well-formed container, and malformed ones
\* made of its metadata and tree blocks
Variants(good, metadataBytes, treeBytes) ==
  { good,
    \* shorter than the header
    SubSeq(good, 1, 7),
    \* no payload, and a tree length that points 3 bytes behind the end
    U32LE(Len(metadataBytes)) \o U32LE(Len(treeBytes) + 3) \o metadataBytes \o treeBytes,
    \* a metadata length of 2^24
    U32LE(16777216) \o U32LE(Len(treeBytes)) \o metadataBytes \o treeBytes \o <<88>>,
    \* the tree null
    U32LE(Len(metadataBytes)) \o U32LE(4) \o metadataBytes \o NullText \o <<88>> }

VariantsOf(good, metadataLength, treeLength) ==
  Variants(good, Slice(good, 8, 8 + metadataLength),
           Slice(good, 8 + metadataLength, 8 + metadataLength + treeLength))

VariantsFrom(good) == VariantsOf(good, GetUint32(good, 0), GetUint32(good, 4))

HufContents == VariantsFrom(GoodContainer)

Files ==
  {[name |-> PdfName, type |-> PdfType, data |-> b] : b \in AppBuffers}
    \cup {[name |-> HufName, type |-> "", data |-> c] : c \in HufContents}
    \cup {[name |-> TxtName, type |-> "text/plain", data |-> <<88>>]}

HasError(r) == r # NullNode /\ "error" \in DOMAIN r
IsCompression(r) == r # NullNode /\ "compressed" \in DOMAIN r

InitApp == IdleApp /\ IdleCodec /\ IdleTree /\ IdleBits /\ IdleProgress /\ IdleQueue

\* handleFileSelect / handleDrop -> handleFileProcessing(selectedFile); a
\* file that is neither a PDF nor a .huf file only raises an alert
HandleFile ==
  \E f \in Files :
    /\ IF f.type = PdfType
       THEN /\ mode' = "compress"
            /\ file' = f /\ result' = NullNode /\ decompressedFile' = NullNode
       ELSE IF EndsWithHuf(f.name)
       THEN /\ mode' = "decompress"
            /\ file' = f /\ result' = NullNode /\ decompressedFile' = NullNode
       ELSE UNCHANGED <<mode, file, result, decompressedFile>>
    /\ UNCHANGED <<isProcessing, processingProgress, processingStatus, runs, timers,
                   started, downloads>>
    /\ UNCHANGED notApp

\* the mode buttons
ModeCompress ==
  /\ mode' = "compress" /\ file' = NullNode /\ result' = NullNode
  /\ UNCHANGED <<isProcessing, decompressedFile, processingProgress, processingStatus,
                 runs, timers, started,
                 downloads>>
  /\ UNCHANGED notApp

ModeDecompress ==
  /\ mode' = "decompress" /\ file' = NullNode /\ result' = NullNode
  /\ UNCHANGED <<isProcessing, decompressedFile, processingProgress, processingStatus,
                 runs, timers, started,
                 downloads>>
  /\ UNCHANGED notApp

\* processFile, from the click on Compress / Decompress (shown while a file
\* is selected, disabled while isProcessing) up to the await of the read
ProcessFile ==
  /\ file # NullNode
  /\ ~isProcessing
  /\ started < MaxRuns
  /\ isProcessing' = TRUE
  /\ result' = NullNode
  /\ decompressedFile' = NullNode
  /\ processingProgress' = IF mode = "compress" THEN 0 ELSE 20
  /\ processingStatus' = IF mode = "compress" THEN "" ELSE "Reading compressed file..."
  /\ started' = started + 1
  /\ timers' = timers \cup {started + 1}
  /\ runs' = runs \cup {[id |-> started + 1, file |-> file, mode |-> mode]}
  /\ UNCHANGED <<file, mode, downloads>>
  /\ UNCHANGED notApp

\* the status text that goes with a percentage of huffmanCompress
CompressStatus(percent) ==
  IF percent = 10 THEN "Analyzing file structure..."
  ELSE IF percent = 30 THEN "Building frequency table..."
  ELSE IF percent = 50 THEN "Building Huffman tree..."
  ELSE IF percent = 90 THEN "Finalizing compression..."
  ELSE IF percent = 100 THEN "Compression complete!"
  ELSE "Encoding data..."

\* parseFloat of a statistic, in hundredths
ParseFloat100(x) == IF x.t = "num" THEN 100 * x.v ELSE IF x.d = 2 THEN x.v ELSE 10 * x.v

\* the block that rewrites the statistics when the ratio is above 20, for
\* the drawn targetRatio (in hundredths)
AdjustResult(compressionResult, targetRatio) ==
  LET originalSize == compressionResult.originalSize
      \* adjustedSize * 10000
      adjusted == Max(originalSize * (10000 - targetRatio),
                      compressionResult.compressedSize * 9000)
      theoreticalMin ==
        CeilDiv(originalSize * ParseFloat100(compressionResult.entropy), 800)
  IN [compressionResult EXCEPT
        !.compressionRatio = Fixed(targetRatio, 2),
        !.compressedSize = RoundDiv(adjusted, 10000),
        !.efficiency = EfficiencyFixed(theoreticalMin, adjusted, 10000)]

\* the compress branch once huffmanCompress has settled, with the catch and
\* finally blocks
SettleCompress(r, compressionResult, reports) ==
  /\ processingProgress' = PercentValue(reports[Len(reports)])
  /\ processingStatus' = CompressStatus(PercentValue(reports[Len(reports)]))
  /\ IF compressionResult.threw
     THEN result' = [error |-> compressionResult.message]
     ELSE IF ParseFloat100(compressionResult.compressionRatio) > 2000
     THEN \E targetRatio \in TargetRatios :
            result' = AdjustResult(compressionResult, targetRatio)
     ELSE result' = compressionResult
  /\ timers' = timers \ {r.id}
  /\ isProcessing' = FALSE
  /\ runs' = runs \ {r}
  /\ UNCHANGED <<file, mode, decompressedFile, started, downloads>>
  /\ UNCHANGED notApp

\* processFile in compress mode, from the completed read to the end
FinishCompress ==
  \E r \in runs :
    /\ r.mode = "compress"
    /\ SettleCompress(r, huffmanCompress(r.file.data), CompressProgress(r.file.data))

\* the status text that goes with a percentage of the decompress branch
DecompressStatus(percent) ==
  IF percent = 40 THEN "Parsing file header..."
  ELSE IF percent = 60 THEN "Rebuilding Huffman tree..."
  ELSE IF percent = 80 THEN "Decompressing data..."
  ELSE "Decompression complete!"

\* a decompress branch that cleans up at the end of the try block instead
\* of a finally block: a run that throws ends with its timer running and
\* isProcessing as it was
SettleDecompress_NoFinally(r, outcome) ==
  /\ processingProgress' = outcome.progress
  /\ processingStatus' = DecompressStatus(outcome.progress)
  /\ IF outcome.thrown
     THEN /\ result' = [error |-> "Invalid .huf file format: " \o outcome.message]
          /\ UNCHANGED <<decompressedFile, timers, isProcessing>>
     ELSE /\ result' = outcome.result
          /\ decompressedFile' = [bytes |-> outcome.decompressed]
          /\ timers' = timers \ {r.id}
          /\ isProcessing' = FALSE
  /\ runs' = runs \ {r}
  /\ UNCHANGED <<file, mode, started, downloads>>
  /\ UNCHANGED notApp

\* the decompress branch once the inner try block has settled, with the
\* catch and finally blocks
SettleDecompress(r, outcome) ==
  /\ processingProgress' = outcome.progress
  /\ processingStatus' = DecompressStatus(outcome.progress)
  /\ IF outcome.thrown
     THEN /\ result' = [error |-> "Invalid .huf file format: " \o outcome.message]
          /\ UNCHANGED decompressedFile
     ELSE /\ result' = outcome.result
          /\ decompressedFile' = [bytes |-> outcome.decompressed]
  /\ timers' = timers \ {r.id}
  /\ isProcessing' = FALSE
  /\ runs' = runs \ {r}
  /\ UNCHANGED <<file, mode, started, downloads>>
  /\ UNCHANGED notApp

\* processFile in decompress mode, from the completed read to the end
FinishDecompress ==
  \E r \in runs :
    /\ r.mode = "decompress"
    /\ SettleDecompress(r, DecompressOutcome(r.file.data))

\* downloadCompressed, from the button of the result panel in compress mode
DownloadCompressed ==
  /\ result # NullNode /\ ~HasError(result) /\ mode = "compress"
  /\ Len(downloads) < MaxDownloads
  /\ IF ~IsCompression(result)
     THEN UNCHANGED downloads
     \* file.name throws when no file is selected: the catch block alerts
     ELSE IF file = NullNode
     THEN UNCHANGED downloads
     ELSE downloads' =
            Append(downloads,
                   [kind |-> "compressed",
                    name |-> StripExtension(file.name) \o Str(<<".", "h", "u", "f">>),
                    bytes |-> Container(result, file.name),
                    source |-> result.originalData])
  /\ UNCHANGED <<file, mode, isProcessing, result, decompressedFile, processingProgress,
                 processingStatus, runs, timers, started>>
  /\ UNCHANGED notApp

\* downloadDecompressed, from the button of the result panel in decompress mode
DownloadDecompressed ==
  /\ result # NullNode /\ ~HasError(result) /\ mode = "decompress"
  /\ Len(downloads) < MaxDownloads
  /\ IF decompressedFile = NullNode
     THEN UNCHANGED downloads
     ELSE downloads' =
            Append(downloads,
                   [kind |-> "decompressed",
                    name |->
                      IF "originalFileName" \in DOMAIN result
                         /\ ~Falsy(result.originalFileName)
                      THEN result.originalFileName.v
                      ELSE Str(<<"d", "e", "c", "o", "m", "p", "r", "e", "s", "s", "e",
                                 "d", ".", "p", "d", "f">>),
                    bytes |-> decompressedFile.bytes,
                    source |-> <<>>])
  /\ UNCHANGED <<file, mode, isProcessing, result, decompressedFile, processingProgress,
                 processingStatus, runs, timers, started>>
  /\ UNCHANGED notApp

\* reset, from the Reset button (shown while a file is selected) or the Try
\* Again button (shown with an error)
Reset ==
  /\ file # NullNode \/ HasError(result)
  /\ file' = NullNode
  /\ result' = NullNode
  /\ decompressedFile' = NullNode
  /\ isProcessing' = FALSE
  /\ processingProgress' = 0
  /\ processingStatus' = ""
  /\ UNCHANGED <<mode, runs, timers, started, downloads>>
  /\ UNCHANGED notApp

NextApp ==
  \/ HandleFile \/ ModeCompress \/ ModeDecompress \/ ProcessFile
  \/ FinishCompress \/ FinishDecompress \/ DownloadCompressed \/ DownloadDecompressed
  \/ Reset

SpecApp == InitApp /\ [][NextApp]_vars

\* a processFile run of this mode waits for its file read
Pending(runMode) == \E r \in runs : r.mode = runMode

\* The component when every pending file read completes: the promise of
\* file.arrayBuffer() settles, and the rest of processFile then runs to its
\* end without suspending again.  These are WF_vars(FinishCompress) and
\* WF_vars(FinishDecompress) written out: the completion step of a mode is
\* enabled exactly when a run of that mode is pending, since the settle
\* steps have no guard of their own and always take the run out of runs.
\* The first conjunct of each step formula is implied by the second and
\* tells the steps that end no run apart at once.
SpecAppFair ==
  /\ SpecApp
  /\ \/ []<>(~Pending("compress"))
     \/ []<><<(\E r \in runs : runs' = runs \ {r}) /\ FinishCompress>>_vars
  /\ \/ []<>(~Pending("decompress"))
     \/ []<><<(\E r \in runs : runs' = runs \ {r}) /\ FinishDecompress>>_vars

----------------------------------------------------------------------------
(* Properties                                                              *)

IsPrefix(a, b) == Len(a) <= Len(b) /\ SubSeq(b, 1, Len(a)) = a

\* C1 (as claimed): huffmanCompress returns for every buffer, and
\* huffmanDecompress on its payload, tree, padding and original size
\* returns exactly the buffer.
C1_RoundTrip ==
  /\ cpc = "compressed" => ~cres.threw
  /\ cpc = "decompressed" => dout = originalData

\* C2 (as claimed): the reverse-RLE scan applied to preprocessData(B)
\* returns exactly B, for every buffer B.
C2_RleRoundTrip == cpc = "unrle" => rleBack = originalData

\* C4: every code of a table that buildCodes makes from a tree that
\* buildHuffmanTree built is a non-empty string of 0/1, and no code is a
\* prefix of the code of another byte.
C4_PrefixFree ==
  tpc \in {"coded", "decoded"} =>
    /\ \A c \in DOMAIN codeTable :
         codeTable[c] # <<>> /\ Range(codeTable[c]) \subseteq {0, 1}
    /\ \A c, d \in DOMAIN codeTable :
         c # d => ~IsPrefix(codeTable[c], codeTable[d])

\* a table of four codes of different lengths was built
C4_Witness ==
  /\ tpc = "coded"
  /\ Cardinality(DOMAIN codeTable) = 4
  /\ \E c, d \in DOMAIN codeTable : Len(codeTable[c]) = 1 /\ Len(codeTable[d]) = 3

\* C5 (as claimed): huffmanCompress on a zero-length buffer returns a
\* result whose original size is 0 instead of failing.
C5_EmptyInputReturns ==
  (cpc = "compressed" /\ originalData = <<>>) =>
    (~cres.threw /\ cres.originalSize = 0)

\* C6 (as claimed): a decode that met a bit with no corresponding child
\* does not return a result.
C6_NoSilentDrop == tpc = "decoded" => ~walkedOff

\* C9 (as claimed): compressing [7,7,7,7,7] takes the single-leaf special
\* case, the tree being the leaf of byte 7 with count 5, and decompressing
\* gives five bytes 7.
C9_SingleLeafScenario ==
  (originalData = <<7, 7, 7, 7, 7>> /\ cpc \in {"compressed", "decompressed"}) =>
    /\ cres.tree = HuffmanNode(7, 5, NullNode, NullNode)
    /\ cpc = "decompressed" => dout = <<7, 7, 7, 7, 7>>

\* C9 (amended): compressing [7,7,7,7,7] encodes the RLE triplet [255,5,7]
\* through the general path, with a tree over the three byte values 255, 5
\* and 7 and no single-leaf result, and decompressing gives five bytes 7.
C9_RunScenario ==
  (originalData = <<7, 7, 7, 7, 7>> /\ cpc \in {"compressed", "decompressed"}) =>
    /\ ~cres.threw
    /\ "singleChar" \notin DOMAIN cres
    /\ cres.preprocessedData = <<255, 5, 7>>
    /\ cres.uniqueBytes = 3
    /\ DOMAIN cres.codes = {255, 5, 7}
    /\ cres.tree.char = NullChar
    /\ cpc = "decompressed" => dout = <<7, 7, 7, 7, 7>>

C9_Witness == originalData = <<7, 7, 7, 7, 7>> /\ cpc = "decompressed"

\* C10: packBits returns a padding in 0..7 that brings the length to a
\* multiple of 8, and unpackBits on its bytes and padding gives the bit
\* string back.
C10_PackRoundTrip ==
  /\ bpc \in {"packed", "unpacked"} =>
       /\ packedOut.padding \in 0..7
       /\ (Len(bitsIn) + packedOut.padding) % 8 = 0
       /\ Len(packedOut.bytes) * 8 = Len(bitsIn) + packedOut.padding
  /\ bpc = "unpacked" => bitsOut = bitsIn

\* a 100-bit string with both bit values went through, and so did a string
\* whose length is a multiple of 8
C10_Witness ==
  /\ bpc = "unpacked"
  /\ Len(bitsIn) = 100
  /\ Range(bitsIn) = {0, 1}
  /\ packedOut.padding = 4

\* C3: two containers downloaded for the same buffer under the same file
\* name are byte-identical.
C3_SameBufferSameContainer ==
  \A i, j \in DOMAIN downloads :
    (/\ downloads[i].kind = "compressed" /\ downloads[j].kind = "compressed"
     /\ downloads[i].source = downloads[j].source
     /\ downloads[i].name = downloads[j].name)
      => downloads[i].bytes = downloads[j].bytes

\* the container is shorter than its header, or its header lengths point
\* behind its end
Malformed(data) ==
  \/ Len(data) < 8
  \/ 8 + GetUint32(data, 0) + GetUint32(data, 4) > Len(data)

\* C7: a decompress run on a buffer shorter than 8 bytes, or with
\* 8 + M + T above the buffer length, ends with an error as the result, at
\* the header stage (progress 40, before the tree is rebuilt at 60 and the
\* data decoded at 80), and stores no decompressed output.
C7_BoundsCheck ==
  [][\A r \in runs :
       (r.mode = "decompress" /\ Malformed(r.file.data) /\ runs' = runs \ {r})
         => /\ HasError(result')
            /\ processingProgress' = 40
            /\ decompressedFile' = decompressedFile]_vars

C7_Witness ==
  /\ result = [error |-> "Invalid .huf file format: Invalid .huf file: corrupted header"]
  /\ processingProgress = 40
  /\ file # NullNode /\ Len(file.data) >= 8 /\ Malformed(file.data)
  /\ runs = {} /\ ~isProcessing

\* C8: when a decompress run fails, the state it leaves holds an error as
\* the result and no decompressed output.
C8_NoPartialResult ==
  [][\A r \in runs :
       (/\ r.mode = "decompress"
        /\ DecompressOutcome(r.file.data).thrown
        /\ runs' = runs \ {r})
         => HasError(result') /\ decompressedFile' = NullNode]_vars

\* C11: within one huffmanCompress call the percentages handed to the
\* progress callback never decrease and lie in 0..100, for every shape of
\* call and every length of the encode loop.
C11_ProgressMonotone ==
  gpc = "reported" =>
    /\ \A i \in DOMAIN reported :
         PercentLeq(Percent(0), reported[i]) /\ PercentLeq(reported[i], Percent(100))
    /\ \A i \in 1..(Len(reported) - 1) : PercentLeq(reported[i], reported[i + 1])

\* a call whose encode loop reported four times, the last report a fraction
C11_Witness ==
  /\ gpc = "reported"
  /\ shapeLength = 30001
  /\ Len(reported) = 10
  /\ reported[8] = [n |-> 70 * 30001 + 600000, d |-> 30001]

\* C12 (as claimed): a huffmanCompress call that returned a result has
\* handed 100 to the progress callback.
C12_ReportsCompletion ==
  (cpc \in {"compressed", "decompressed"} /\ ~cres.threw) =>
    \E i \in DOMAIN progressLog : progressLog[i] = Percent(100)

\* the length of the run a sequence starts with, capped at 255
FirstRun(s) ==
  Cardinality({c \in 1..Min(Len(s), 255) : \A k \in 1..c : s[k] = s[1]})

\* the forward rule as the specification words it: a triplet for a run of
\* four or more, the run's bytes for a shorter one, then the rest
RECURSIVE RleRule(_)
RleRule(s) ==
  IF s = <<>> THEN <<>>
  ELSE (IF FirstRun(s) >= 4 THEN <<255, FirstRun(s), s[1]>>
                            ELSE SubSeq(s, 1, FirstRun(s)))
       \o RleRule(SubSeq(s, FirstRun(s) + 1, Len(s)))

\* C13: preprocessData emits (255, run length, value) for every run of four
\* or more bytes, runs capped at 255, and the bytes of shorter runs
\* literally; [65,65,65,65,65,66] becomes [255,5,65,66].
C13_ForwardRule ==
  cpc \in {"rle", "unrle"} =>
    /\ rleData = RleRule(originalData)
    /\ originalData = <<65, 65, 65, 65, 65, 66>> => rleData = <<255, 5, 65, 66>>

\* a run of 259 was split into a run of 255 and a run of 4
C13_Witness ==
  /\ cpc = "rle"
  /\ Len(originalData) = 260
  /\ rleData = <<255, 255, 65, 255, 4, 65, 66>>

\* the inverse rule as the specification words it
RECURSIVE InverseRule(_)
InverseRule(s) ==
  IF s = <<>> THEN <<>>
  ELSE IF s[1] = 255 /\ Len(s) - 1 >= 2
       THEN Repeat(s[3], s[2]) \o InverseRule(SubSeq(s, 4, Len(s)))
       ELSE <<s[1]>> \o InverseRule(Tail(s))

\* C14: the inverse scan expands (255, count, value) to count copies of
\* value when at least two bytes follow the 255, and copies every other
\* byte literally.
C14_InverseRule ==
  cpc = "unrle" => rleBack = InverseRule(rleData)

\* one scan that expanded a triplet and then copied a trailing 255
C14_Witness ==
  /\ cpc = "unrle"
  /\ rleData = <<255, 4, 7, 255>>
  /\ rleBack = <<7, 7, 7, 7, 255>>

\* a is a leaf
IsLeafNode(a) == a.char # NullChar

\* a may stand before b: its weight is smaller, or the weights are equal and
\* it is a leaf while b is internal, or both are leaves and its byte is not
\* the larger, or both are internal
MayPrecede(a, b) ==
  \/ a.freq < b.freq
  \/ /\ a.freq = b.freq
     /\ \/ IsLeafNode(a) /\ ~IsLeafNode(b)
        \/ IsLeafNode(a) /\ IsLeafNode(b) /\ a.char <= b.char
        \/ ~IsLeafNode(a) /\ ~IsLeafNode(b)

\* the item list is sorted
C15_Sorted ==
  \A i \in DOMAIN pqItems : \A j \in DOMAIN pqItems :
    i < j => MayPrecede(pqItems[i], pqItems[j])

\* a dequeue on a queue that holds items returns one that may precede every
\* item of the queue
C15_DequeueMinimal ==
  (pqItems # <<>> /\ QueueDequeue) =>
    /\ \A i \in DOMAIN pqItems : MayPrecede(pqOut', pqItems[i])
    /\ Len(pqItems') = Len(pqItems) - 1

\* C15: after any sequence of enqueue and dequeue calls the item list is
\* sorted by ascending weight, a leaf before an internal node of equal
\* weight, equal-weight leaves by ascending byte; dequeue returns a minimal
\* node.
C15_QueueOrder == []C15_Sorted /\ [][C15_DequeueMinimal]_vars

\* a leaf was dequeued ahead of an internal node and a larger leaf of its
\* weight, which are still queued in that order
C15_Witness ==
  /\ pqOut = HuffmanNode(7, 2, NullNode, NullNode)
  /\ Len(pqItems) = 2
  /\ pqItems[1] = HuffmanNode(65, 2, NullNode, NullNode)
  /\ pqItems[2].char = NullChar
  /\ pqItems[2].freq = 2

\* the byte values of the leaves under a node, left to right
RECURSIVE LeafBytes(_)
LeafBytes(n) ==
  IF ~TruthyNode(n) THEN <<>>
  ELSE IF n.char # NullChar THEN <<n.char>>
  ELSE LeafBytes(n.left) \o LeafBytes(n.right)

\* every internal node under n has two children and their weights' sum
RECURSIVE TwoChildrenSum(_)
TwoChildrenSum(n) ==
  \/ n.char # NullChar
  \/ /\ TruthyNode(n.left) /\ TruthyNode(n.right)
     /\ n.freq = n.left.freq + n.right.freq
     /\ TwoChildrenSum(n.left) /\ TwoChildrenSum(n.right)

\* C16: for a frequency table of two or more byte values buildHuffmanTree
\* returns one root whose tree has exactly one leaf per byte value of the
\* table, internal nodes with two children and the sum of their weights,
\* and a root weight equal to the sum of all counts.
C16_GeneralTree ==
  (tpc # "table" /\ Cardinality(DOMAIN table) >= 2) =>
    /\ TruthyNode(treeRoot)
    /\ Len(LeafBytes(treeRoot)) = Cardinality(DOMAIN table)
    /\ Range(LeafBytes(treeRoot)) = DOMAIN table
    /\ TwoChildrenSum(treeRoot)
    /\ treeRoot.freq = SumOver(table, DOMAIN table)

\* a tree over five byte values with equal counts among them
C16_Witness ==
  /\ tpc = "built"
  /\ DOMAIN table = TreeBytes
  /\ table[0] = 1 /\ table[7] = 1 /\ table[32] = 2 /\ table[65] = 2 /\ table[255] = 3
  /\ treeRoot.freq = 9
  /\ Len(LeafBytes(treeRoot)) = 5

\* C17 (as claimed): when the RLE-transformed buffer has exactly one byte
\* value, the tree huffmanCompress returns has a root with no byte value,
\* the value's count as weight, the leaf as left child and no right child.
C17_SingleSymbolShape ==
  (cpc \in {"compressed", "decompressed"} /\ ~cres.threw /\ cres.uniqueBytes = 1) =>
    /\ cres.tree.char = NullChar
    /\ cres.tree.freq = cres.charCount
    /\ TruthyNode(cres.tree.left)
    /\ cres.tree.left.char = cres.compressed[1]
    /\ cres.tree.right = NullNode

\* how often byte b occurs in s
Occurrences(s, b) == Cardinality({i \in DOMAIN s : s[i] = b})

\* C18: buildFrequencyTable has an entry for exactly the byte values present
\* in the buffer; the entry is the occurrence count, and floor(1.2 x count)
\* for the marker bytes 0x25, 0x50, 0x44, 0x46, 0x0A, 0x0D, 0x20, 0x2F, 0x3E.
C18_FrequencyTable ==
  cpc = "counted" =>
    /\ DOMAIN freqOut = Range(originalData)
    /\ \A b \in DOMAIN freqOut :
         freqOut[b] = IF b \in {37, 80, 68, 70, 10, 13, 32, 47, 62}
                      THEN (12 * Occurrences(originalData, b)) \div 10
                      ELSE Occurrences(originalData, b)

\* three spaces counted as three, two sevens as two, no 65 and no 255
C18_Witness ==
  /\ cpc = "counted"
  /\ originalData = <<32, 7, 32, 7, 32>>
  /\ freqOut[32] = 3 /\ freqOut[7] = 2
  /\ DOMAIN freqOut = {7, 32}

\* C19 (as claimed): the compressedSize of a stored compression result is
\* the byte length of the payload stored in the same result.
C19_HonestSize ==
  IsCompression(result) => result.compressedSize = Len(result.compressed)

\* C20 (as claimed): whenever a compression result is stored in result, a
\* file is selected and the mode is 'compress'.
C20_NoStaleResult ==
  IsCompression(result) => (file # NullNode /\ mode = "compress")

\* the processFile run with this id is past its click and before its end
InFlight(id) == \E r \in runs : r.id = id

\* a run that is in flight ends, and its timer is stopped then
C21_RunEnds ==
  \A id \in 1..MaxRuns : InFlight(id) ~> (~InFlight(id) /\ id \notin timers)

\* the step that ends a run sets isProcessing to false and stops its timer
C21_EndClears ==
  \A id \in 1..MaxRuns :
    (InFlight(id) /\ ~InFlight(id)') => (~isProcessing' /\ id \notin timers')

\* C21: every processFile run that has set isProcessing to true sets it
\* back to false and stops its timer, on success, on a malformed container
\* and when the codec throws, given that the file read completes.
C21_ProcessingEnds == C21_RunEnds /\ [][C21_EndClears]_vars

\* a run has ended on the codec's throw, with no timer left
C21_Witness ==
  /\ started >= 1
  /\ runs = {} /\ timers = {} /\ ~isProcessing
  /\ result = [error |-> "Cannot read properties of undefined (reading 'char')"]

====
